---- MODULE Spec2Model ----
(***************************************************************************)
(* A model of the BINRPC codec of go-kamailio-binrpc (package binrpc, v3). *)
(*                                                                         *)
(* Representation of the Go values:                                        *)
(*   byte      a number in 0..255                                          *)
(*   []byte    a sequence of bytes; a Go string is the sequence of its     *)
(*             bytes                                                       *)
(*   int       the 64-bit two's-complement pattern of the value, as the    *)
(*             sequence of its 8 bytes, most significant first (the int of *)
(*             a 64-bit build); GoInt(n) is the pattern of a small number n  *)
(*   uint32    the sequence of its 4 bytes, most significant first         *)
(*   float64   the double nearest to m/1000, held as the int pattern of m  *)
(*   any       a record with one field naming the dynamic type             *)
(*   error     a string, "nil" for no error                                *)
(***************************************************************************)
EXTENDS Integers, Sequences, FiniteSets, TLC

VARIABLES stream, rpos, sent, reads, reader, last

vars == <<stream, rpos, sent, reads, reader, last>>

\* ------------------------------------------------------------------ bytes

Min(a, b) == IF a < b THEN a ELSE b

\* x | y for a Go int x and y >= 0 given as numbers (a negative x in two's
\* complement)
RECURSIVE BitOr(_, _)
BitOr(x, y) ==
    IF x = 0 THEN y
    ELSE IF y = 0 THEN x
    ELSE (IF x % 2 = 1 \/ y % 2 = 1 THEN 1 ELSE 0) + 2 * BitOr(x \div 2, y \div 2)

\* byte(x) of a Go int x given as a number: the low 8 bits
ToByte(x) == x % 256

\* n copies of the byte b
Rep(b, n) == [i \in 1..n |-> b]

\* the width in bytes of the int of the build
IntBytes == 8

\* a number of magnitude below 2^31 as a Go int
GoInt(n) ==
    [i \in 1..IntBytes |->
        IF i <= IntBytes - 4
        THEN (IF n < 0 THEN 255 ELSE 0)
        ELSE (n \div (256 ^ (IntBytes - i))) % 256]

\* int(x) of a uint32 x: zero extension
IntOfUint32(x) == Rep(0, IntBytes - 4) \o x

\* uint32(x) of an int x: the low 32 bits
Uint32OfInt(x) == SubSeq(x, IntBytes - 3, IntBytes)

\* x<<8 + int(b) on int: the top byte is shifted out, b fills the low byte
Shl8Add(x, b) == Tail(x) \o <<b>>

\* x >> 8 on int: arithmetic shift, the sign byte is shifted in
Shr8(x) == <<(IF x[1] >= 128 THEN 255 ELSE 0)>> \o SubSeq(x, 1, IntBytes - 1)

\* the int 0
IntZero == Rep(0, IntBytes)

\* whether the int x is one GoInt(n) represents, and that n
IsSmall(x) ==
    \/ SubSeq(x, 1, IntBytes - 4) = Rep(0, IntBytes - 4) /\ x[IntBytes - 3] < 128
    \/ SubSeq(x, 1, IntBytes - 4) = Rep(255, IntBytes - 4) /\ x[IntBytes - 3] >= 128

SmallVal(x) ==
    LET u == ((x[IntBytes - 3] % 128) * 65536 + x[IntBytes - 2] * 256 + x[IntBytes - 1]) * 256
             + x[IntBytes]
    IN  IF x[IntBytes - 3] >= 128 THEN u - 1073741824 - 1073741824 ELSE u

\* ------------------------------------------------------------- constants

BinRPCMagic == 10
BinRPCVersion == 1

TypeInt == 0
TypeString == 1
TypeDouble == 2
TypeStruct == 3
TypeArray == 4
TypeAVP == 5
TypeBytes == 6

MaxSizeOfLength == 4

errEndOfStruct == "END_OF_STRUCT"

\* the dynamic values a Record.Value holds
IntV(i) == [int |-> i]
StringV(s) == [string |-> s]
Float64V(m) == [float64 |-> m]
ItemsV(items) == [items |-> items]
IsIntV(v) == DOMAIN v = {"int"}
IsStringV(v) == DOMAIN v = {"string"}
IsFloat64V(v) == DOMAIN v = {"float64"}

Record(type, value, size) == [Type |-> type, Value |-> value, size |-> size]

StructItem(key, value) == [Key |-> key, Value |-> value]

\* ------------------------------------------------------------ accessors

IsItemsV(v) == DOMAIN v = {"items"}

\* what an accessor returns: the error and the value; a type assertion on a
\* value of another dynamic type panics
Got(value) == [err |-> "nil", value |-> value]
TypeError == [err |-> "type error", value |-> <<>>]
Panic == [err |-> "panic", value |-> <<>>]

\* record.String()
RecordString(record) ==
    IF record.Type # TypeString THEN TypeError
    ELSE IF IsStringV(record.Value) THEN Got(record.Value) ELSE Panic

\* record.Int()
RecordInt(record) ==
    IF record.Type # TypeInt THEN TypeError
    ELSE IF IsIntV(record.Value) THEN Got(record.Value) ELSE Panic

\* Double with the test of Int
RecordDoubleOfInt(record) ==
    IF record.Type # TypeInt THEN TypeError
    ELSE IF IsFloat64V(record.Value) THEN Got(record.Value) ELSE Panic

\* record.Double()
RecordDouble(record) ==
    IF record.Type # TypeDouble THEN TypeError
    ELSE IF IsFloat64V(record.Value) THEN Got(record.Value) ELSE Panic

\* record.StructItems()
RecordStructItems(record) ==
    IF record.Type # TypeStruct THEN TypeError
    ELSE IF IsItemsV(record.Value) THEN Got(record.Value) ELSE Panic

\* ----------------------------------------------------------------- Scan

\* the decimal digits of n >= 0
RECURSIVE Digits(_)
Digits(n) == IF n < 10 THEN <<48 + n>> ELSE Digits(n \div 10) \o <<48 + (n % 10)>>

\* the number a string of decimal digits denotes
RECURSIVE DigitsValue(_)
DigitsValue(s) ==
    IF s = <<>> THEN 0
    ELSE DigitsValue(SubSeq(s, 1, Len(s) - 1)) * 10 + (s[Len(s)] - 48)

IsDigit(c) == c \in 48..57

\* a numeral without the sign strconv accepts in front of it
Unsigned(s) == IF s # <<>> /\ s[1] \in {43, 45} THEN Tail(s) ELSE s

Negative(s) == s # <<>> /\ s[1] = 45

\* strconv.Itoa(n) for a number of magnitude below 2^31
Itoa(n) == IF n < 0 THEN <<45>> \o Digits(0 - n) ELSE Digits(n)

\* x * 10 + carry for an unsigned x, one byte wider than x: the first byte is
\* what the width of x cannot hold
RECURSIVE MulTenAdd(_, _)
MulTenAdd(x, carry) ==
    IF x = <<>> THEN <<carry>>
    ELSE MulTenAdd(SubSeq(x, 1, Len(x) - 1), (x[Len(x)] * 10 + carry) \div 256)
         \o <<(x[Len(x)] * 10 + carry) % 256>>

\* -x on int, in two's complement: the zero bytes at the low end stay, the
\* byte above them is taken from 256, those above it from 255
RECURSIVE NegInt(_)
NegInt(x) ==
    IF x = <<>> THEN <<>>
    ELSE IF x[Len(x)] = 0 THEN NegInt(SubSeq(x, 1, Len(x) - 1)) \o <<0>>
    ELSE [i \in 1..(Len(x) - 1) |-> 255 - x[i]] \o <<256 - x[Len(x)]>>

\* the loop of strconv.ParseUint(s, 10, 64) with n the uint64 read so far: a
\* character that is no digit is a syntax error, a digit that takes the number
\* to 2^64 or beyond a range error, whichever comes first
RECURSIVE ParseUintLoop(_, _)
ParseUintLoop(s, n) ==
    IF s = <<>> THEN [err |-> "nil", n |-> n]
    ELSE IF ~IsDigit(s[1]) THEN [err |-> "invalid syntax", n |-> IntZero]
    ELSE IF MulTenAdd(n, s[1] - 48)[1] # 0
    THEN [err |-> "value out of range", n |-> Rep(255, IntBytes)]
    ELSE ParseUintLoop(Tail(s), Tail(MulTenAdd(n, s[1] - 48)))

\* strconv.ParseInt giving the sign to the uint64 un: a number the int cannot
\* hold is a range error, returned with the largest or the least int
ParseIntSigned(neg, un) ==
    IF un.err = "invalid syntax" THEN un
    ELSE IF ~neg /\ un.n[1] >= 128
    THEN [err |-> "value out of range", n |-> <<127>> \o Rep(255, IntBytes - 1)]
    ELSE IF neg /\ un.n[1] >= 128 /\ un.n # <<128>> \o Rep(0, IntBytes - 1)
    THEN [err |-> "value out of range", n |-> <<128>> \o Rep(0, IntBytes - 1)]
    ELSE [err |-> "nil", n |-> IF neg THEN NegInt(un.n) ELSE un.n]

\* strconv.Atoi(s): a sign, then digits only, at least one; the error and the
\* int
Atoi(s) ==
    IF Unsigned(s) = <<>> THEN [err |-> "invalid syntax", n |-> IntZero]
    ELSE ParseIntSigned(Negative(s), ParseUintLoop(Unsigned(s), IntZero))

\* A float64 that Scan stores is named by the decimal number mant / 10^scale
\* nearest to it, in lowest terms: no trailing zero in mant unless scale is 0.
RECURSIVE Float64Dec(_, _)
Float64Dec(mant, scale) ==
    IF mant = 0 THEN [float64 |-> <<0, 0>>]
    ELSE IF scale > 0 /\ mant % 10 = 0 THEN Float64Dec(mant \div 10, scale - 1)
    ELSE [float64 |-> <<mant, scale>>]

\* the digits of a numeral, its point left out, and the digits after the point
DigitsOf(s) == SelectSeq(s, IsDigit)

RECURSIVE Decimals(_)
Decimals(s) ==
    IF s = <<>> \/ s[Len(s)] = 46 THEN 0
    ELSE 1 + Decimals(SubSeq(s, 1, Len(s) - 1))

\* strconv.ParseFloat(s, 64) for a short string without exponent, prefix or
\* name: a sign, then digits with at most one point among them, at least one
\* digit
ParseFloat(s) ==
    IF /\ DigitsOf(Unsigned(s)) # <<>>
       /\ \A i \in DOMAIN Unsigned(s) : IsDigit(Unsigned(s)[i]) \/ Unsigned(s)[i] = 46
       /\ Len(Unsigned(s)) - Len(DigitsOf(Unsigned(s))) <= 1
    THEN [err |-> "nil",
          f |-> Float64Dec((IF Negative(s) THEN 0 - 1 ELSE 1)
                              * DigitsValue(DigitsOf(Unsigned(s))),
                           IF Len(Unsigned(s)) = Len(DigitsOf(Unsigned(s))) THEN 0
                           ELSE Decimals(Unsigned(s)))]
    ELSE [err |-> "invalid syntax", f |-> Float64Dec(0, 0)]

\* fmt.Sprintf("%.3f", v) for the float64 v of t thousandths
Sprintf3(t) ==
    (IF t < 0 THEN <<45>> ELSE <<>>)
    \o Digits((IF t < 0 THEN 0 - t ELSE t) \div 1000) \o <<46>>
    \o Tail(Digits(1000 + ((IF t < 0 THEN 0 - t ELSE t) % 1000)))

\* the nil interface value of a record that was given no Value, and the nil
\* pointer given as dest
NilV == [nil |-> TRUE]

\* the variable dest points at: its type and its value
Dest(kind, value) == [kind |-> kind, value |-> value]

\* what Scan returns, with the variable as it leaves it
Scanned(err, dest) == [err |-> err, dest |-> dest]

\* the panic of a type assertion on a Value of another dynamic type, and that
\* of an assignment through a nil pointer; Scan does not return
ConversionPanic == "panic: interface conversion"
NilPanic == "panic: runtime error: invalid memory address or nil pointer dereference"

\* *dest = value
Store(dest, value) ==
    IF dest.value = NilV THEN Scanned(NilPanic, dest)
    ELSE Scanned("nil", Dest(dest.kind, value))

\* case *int of Scan
ScanInt(record, dest) ==
    CASE record.Type = TypeString ->
            IF ~IsStringV(record.Value) THEN Scanned(ConversionPanic, dest)
            ELSE IF Atoi(record.Value.string).err = "nil"
            THEN Store(dest, IntV(Atoi(record.Value.string).n))
            ELSE Scanned(Atoi(record.Value.string).err, dest)
      [] record.Type = TypeInt ->
            IF ~IsIntV(record.Value) THEN Scanned(ConversionPanic, dest)
            ELSE Store(dest, record.Value)
      [] OTHER -> Scanned("type error: cannot convert to int", dest)

\* case *string of Scan, the int and the float64 of the record of magnitude
\* below 2^31
ScanString(record, dest) ==
    CASE record.Type = TypeString ->
            IF ~IsStringV(record.Value) THEN Scanned(ConversionPanic, dest)
            ELSE Store(dest, record.Value)
      [] record.Type = TypeInt ->
            IF ~IsIntV(record.Value) THEN Scanned(ConversionPanic, dest)
            ELSE Store(dest, StringV(Itoa(SmallVal(record.Value.int))))
      [] record.Type = TypeDouble ->
            IF ~IsFloat64V(record.Value) THEN Scanned(ConversionPanic, dest)
            ELSE Store(dest, StringV(Sprintf3(SmallVal(record.Value.float64))))
      [] OTHER -> Scanned("type error: cannot convert to string", dest)

\* case *float64 of Scan, the int and the float64 of the record of magnitude
\* below 2^31
ScanFloat64(record, dest) ==
    CASE record.Type = TypeString ->
            IF ~IsStringV(record.Value) THEN Scanned(ConversionPanic, dest)
            ELSE IF ParseFloat(record.Value.string).err = "nil"
            THEN Store(dest, ParseFloat(record.Value.string).f)
            ELSE Scanned(ParseFloat(record.Value.string).err, dest)
      [] record.Type = TypeInt ->
            IF ~IsIntV(record.Value) THEN Scanned(ConversionPanic, dest)
            ELSE Store(dest, Float64Dec(SmallVal(record.Value.int), 0))
      [] record.Type = TypeDouble ->
            IF ~IsFloat64V(record.Value) THEN Scanned(ConversionPanic, dest)
            ELSE Store(dest, Float64Dec(SmallVal(record.Value.float64), 3))
      [] OTHER -> Scanned("type error: cannot convert to double", dest)

\* case *[]StructItem of Scan
ScanItems(record, dest) ==
    IF record.Type # TypeStruct
    THEN Scanned("type error: cannot convert to []StructItem", dest)
    ELSE IF ~IsItemsV(record.Value) THEN Scanned(ConversionPanic, dest)
    ELSE Store(dest, record.Value)

\* record.Scan(dest)
Scan(record, dest) ==
    CASE dest.kind = "string" -> ScanString(record, dest)
      [] dest.kind = "int" -> ScanInt(record, dest)
      [] dest.kind = "float64" -> ScanFloat64(record, dest)
      [] dest.kind = "items" -> ScanItems(record, dest)
      [] OTHER -> Scanned("invalid dest type", dest)

\* ------------------------------------------------------------- VarSizer

\* the loop of getMinBinarySizeOfInt: n is the uint32 being shifted
RECURSIVE MinSizeLoop(_, _)
MinSizeLoop(n, size) ==
    IF size > 0 /\ n[1] = 0
    THEN MinSizeLoop(Tail(n) \o <<0>>, size - 1)
    ELSE size

getMinBinarySizeOfInt(value) == MinSizeLoop(Uint32OfInt(value), 4)

\* the loop of intToBytesBE: bytes[size-1] = byte(n); n >>= 8
RECURSIVE BytesLoop(_, _, _)
BytesLoop(n, size, bytes) ==
    IF size > 0
    THEN BytesLoop(Shr8(n), size - 1, [bytes EXCEPT ![size] = n[IntBytes]])
    ELSE bytes

intToBytesBE(n) ==
    LET size == getMinBinarySizeOfInt(n)
    IN  BytesLoop(n, size, Rep(0, size))

\* ------------------------------------------------------------ float64

\* 2^s mod m
RECURSIVE Pow2Mod(_, _)
Pow2Mod(s, m) == IF s = 0 THEN 1 % m ELSE (2 * Pow2Mod(s - 1, m)) % m

\* floor(log2(t)) for t >= 1
RECURSIVE Log2(_)
Log2(t) == IF t < 2 THEN 0 ELSE 1 + Log2(t \div 2)

\* the number of mantissa bits of a float64 after the leading one
MantissaBits == 52

\* int(v * 1000) for the float64 v nearest to t/1000, 0 <= t < 2^21, in IEEE 754
\* round-to-nearest-even arithmetic. With k = floor(log2 t), e = floor(log2 (t/1000))
\* and s = 52 - e, v is M * 2^-s for the integer M nearest to t * 2^s / 1000, so
\* 1000 * M = t * 2^s + d with d = -r or 1000 - r for r = (t * 2^s) mod 1000 (r is
\* never 500: 8 divides t * 2^s). The exact product v * 1000 is t + d * 2^-s, that
\* is d / 2^(k-e) units in the last place away from t, and k - e is 9 or 10. The
\* product rounds to a float64 below t exactly when d < 0 and it lies more than
\* half a step below t (the step below a power of two is half a unit), and the
\* conversion to int then truncates to t - 1.
MulThousandTrunc(t) ==
    IF t = 0 THEN 0
    ELSE LET k    == Log2(t)
             ke   == IF 128 * t < 125 * (2 ^ (k + 1)) THEN 10 ELSE 9
             s    == MantissaBits - (k - ke)
             r    == ((t % 1000) * Pow2Mod(s, 1000)) % 1000
             pow2 == t = 2 ^ k
             half == IF pow2 THEN 2 ^ (ke - 2) ELSE 2 ^ (ke - 1)
         IN  IF r < 500 /\ r > half THEN t - 1 ELSE t

\* int(v * 1000) for a float64 v given by its thousandths m
Float64Times1000(m) ==
    LET t == SmallVal(m)
    IN  IF t < 0 THEN GoInt(0 - MulThousandTrunc(0 - t)) ELSE GoInt(MulThousandTrunc(t))

\* float64(n) / 1000.0 for an int n: the double nearest to n/1000
Float64OfThousandths(n) == n

\* ------------------------------------------------------------- Encode

\* what Record.Encode puts in front of a payload of sizeOfValue bytes: the
\* header byte and, for 8 bytes or more, the size field
EncodeHeader(type, sizeOfValue) ==
    IF IsSmall(sizeOfValue) /\ SmallVal(sizeOfValue) < 8
    THEN <<BitOr(ToByte(SmallVal(sizeOfValue) * 16), type)>>
    ELSE <<BitOr(BitOr(128, ToByte(Len(intToBytesBE(sizeOfValue)) * 16)), type)>>
         \o intToBytesBE(sizeOfValue)

\* the header and the payload Record.Encode writes for the payload value of a
\* record of the given type
EncodeBody(type, value) == EncodeHeader(type, GoInt(Len(value))) \o value

\* Record.Encode writing to a sink that accepts every write: the error returned
\* and the bytes written
Encode(record) ==
    CASE record.Type = TypeInt ->
            IF ~IsIntV(record.Value)
            THEN [err |-> "type error: expected type int", out |-> <<>>]
            ELSE IF record.Value.int = IntZero
            THEN [err |-> "nil", out |-> <<0>>]
            ELSE [err |-> "nil",
                  out |-> EncodeBody(record.Type, intToBytesBE(record.Value.int))]
      [] record.Type = TypeString ->
            IF ~IsStringV(record.Value)
            THEN [err |-> "type error: expected type string", out |-> <<>>]
            ELSE [err |-> "nil",
                  out |-> EncodeBody(record.Type, record.Value.string \o <<0>>)]
      [] record.Type = TypeDouble ->
            IF ~IsFloat64V(record.Value)
            THEN [err |-> "type error: expected type float64", out |-> <<>>]
            ELSE [err |-> "nil",
                  out |-> EncodeBody(record.Type,
                              intToBytesBE(Float64Times1000(record.Value.float64)))]
      [] OTHER -> [err |-> "type error: type not implemented", out |-> <<>>]

\* CreateRecord[T] for T in int | string | float64; v carries its dynamic type
CreateRecord(v) ==
    CASE IsStringV(v) -> [err |-> "nil", rec |-> Record(TypeString, v, 0)]
      [] IsIntV(v) -> [err |-> "nil", rec |-> Record(TypeInt, v, 0)]
      [] IsFloat64V(v) -> [err |-> "nil", rec |-> Record(TypeDouble, v, 0)]
      [] OTHER -> [err |-> "type not implemented", rec |-> <<>>]

\* ------------------------------------------------------------ readers

\* An io.Reader over the bytes data. pos counts the bytes the source has handed
\* out, chunk is the most it hands out in one Read; a bufio.Reader around the
\* source holds w of those bytes not yet passed on. mem is the machine of the
\* process that reads, which the calls reading from r find there.
Reader(data, pos, chunk) ==
    [data |-> data, pos |-> pos, chunk |-> chunk, bufio |-> FALSE, w |-> 0,
     mem |-> "plenty"]

\* the machines a process runs on: one whose allocator grants every size the
\* address space holds, one that grants no more than MaxLength bytes at once
Memories == {"plenty", "scarce"}

\* the reader r in a process on the machine mem
Machine(r, mem) == [r EXCEPT !.mem = mem]

\* bytes.NewReader(data)
BytesReader(data) == Reader(data, 0, Len(data))

\* the size of the buffer of bufio.NewReader
BufSize == 4096

\* bufio.NewReader(r): r itself when it is a bufio.Reader of that size already
NewBufioReader(r) == IF r.bufio THEN r ELSE [r EXCEPT !.bufio = TRUE, !.w = 0]

\* one Read of the source into a buffer of n bytes: at the end of the data it
\* returns 0 and io.EOF, otherwise what is there, up to n and up to chunk
SrcRead(r, n) ==
    IF r.pos >= Len(r.data)
    THEN [n |-> 0, bytes |-> <<>>, err |-> "EOF", r |-> r]
    ELSE [n |-> Min(Min(n, r.chunk), Len(r.data) - r.pos),
          bytes |-> SubSeq(r.data, r.pos + 1,
                           r.pos + Min(Min(n, r.chunk), Len(r.data) - r.pos)),
          err |-> "nil",
          r |-> [r EXCEPT !.pos = r.pos + Min(Min(n, r.chunk), Len(r.data) - r.pos)]]

\* what a Read returns, with the reader as it leaves it
ReadResult(n, bytes, err, r) == [n |-> n, bytes |-> bytes, err |-> err, r |-> r]

\* bufio.Reader.Read once its buffer holds fill.n bytes: copy(p, b.buf[b.r:b.w])
BufioCopy(r, n, fill) ==
    IF fill.n = 0 THEN ReadResult(0, <<>>, fill.err, fill.r)
    ELSE ReadResult(Min(n, fill.n),
                    SubSeq(r.data, fill.r.pos - fill.n + 1,
                           fill.r.pos - fill.n + Min(n, fill.n)),
                    "nil", [fill.r EXCEPT !.w = fill.n - Min(n, fill.n)])

\* bufio.Reader.Read: with an empty buffer it reads the source once, straight
\* into a large p, else into its own buffer; then copies what it holds
BufioRead(r, n) ==
    IF n = 0 THEN ReadResult(0, <<>>, "nil", r)
    ELSE IF r.w = 0 /\ n >= BufSize THEN SrcRead(r, n)
    ELSE IF r.w = 0 THEN BufioCopy(r, n, SrcRead(r, BufSize))
    ELSE BufioCopy(r, n, ReadResult(r.w, <<>>, "nil", r))

\* r.Read(buf) for a buf of n bytes
Read(r, n) == IF r.bufio THEN BufioRead(r, n) ELSE SrcRead(r, n)

\* io.ReadFull(r, buf) for a buf of n bytes: got holds the bytes read so far,
\* rd is what the last Read returned
RECURSIVE ReadFullLoop(_, _, _)
ReadFullLoop(n, got, rd) ==
    IF rd.err # "nil"
    THEN [err |-> IF Len(got) + rd.n > 0 /\ rd.err = "EOF"
                  THEN "unexpected EOF" ELSE rd.err,
          bytes |-> got \o rd.bytes, r |-> rd.r]
    ELSE IF Len(got) + rd.n >= n
    THEN [err |-> "nil", bytes |-> got \o rd.bytes, r |-> rd.r]
    ELSE ReadFullLoop(n, got \o rd.bytes, Read(rd.r, n - Len(got) - rd.n))

ReadFull(r, n) ==
    IF n = 0 THEN [err |-> "nil", bytes |-> <<>>, r |-> r]
    ELSE ReadFullLoop(n, <<>>, Read(r, n))

\* the largest length the model counts: a Go int beyond it stands for a length
\* no modelled source can supply
MaxLength == 2147483647

\* a non-negative Go int used as a length
LengthOf(x) ==
    IF SubSeq(x, 1, IntBytes - 4) = Rep(0, IntBytes - 4) /\ x[IntBytes - 3] < 128
    THEN SmallVal(x) ELSE MaxLength

\* for _, b := range buf { x = x<<8 + int(b) } on an int x
RECURSIVE Accumulate(_, _)
Accumulate(x, buf) ==
    IF buf = <<>> THEN x ELSE Accumulate(Shl8Add(x, Head(buf)), Tail(buf))

\* for _, b := range buf { c = c<<8 | uint32(b) } on a uint32 c
RECURSIVE AccumulateU32(_, _)
AccumulateU32(c, buf) ==
    IF buf = <<>> THEN c ELSE AccumulateU32(Tail(c) \o <<Head(buf)>>, Tail(buf))

\* ----------------------------------------------------------- ReadHeader

Header(payloadLength, cookie) == [PayloadLength |-> payloadLength, Cookie |-> cookie]

NoHeader == <<>>

\* return nil, err
FailHeader(err, r) == [err |-> err, header |-> NoHeader, r |-> r]

\* HeaderCookie keeping only the last byte of the length field
HeaderCookieLastByte(lengthBytes, sizeOfCookie, rd) ==
    IF rd.err # "nil" \/ rd.n # sizeOfCookie
    THEN FailHeader("cannot read cookie", rd.r)
    ELSE [err |-> "nil",
          header |-> Header(Accumulate(IntZero, <<lengthBytes[Len(lengthBytes)]>>),
                            AccumulateU32(Rep(0, 4), rd.bytes)),
          r |-> rd.r]

\* ReadHeader from the read of the cookie on: lengthBytes is the length field
HeaderCookie(lengthBytes, sizeOfCookie, rd) ==
    IF rd.err # "nil" \/ rd.n # sizeOfCookie
    THEN FailHeader("cannot read cookie", rd.r)
    ELSE [err |-> "nil",
          header |-> Header(Accumulate(IntZero, lengthBytes),
                            AccumulateU32(Rep(0, 4), rd.bytes)),
          r |-> rd.r]

\* HeaderLength accepting a length field read short
HeaderLengthLenient(sizeOfLength, sizeOfCookie, rd) ==
    IF rd.err # "nil" THEN FailHeader("cannot read total length", rd.r)
    ELSE HeaderCookie(rd.bytes, sizeOfCookie, Read(rd.r, sizeOfCookie))

\* ReadHeader from the read of the length on
HeaderLength(sizeOfLength, sizeOfCookie, rd) ==
    IF rd.err # "nil" \/ rd.n # sizeOfLength
    THEN FailHeader("cannot read total length", rd.r)
    ELSE HeaderCookie(rd.bytes, sizeOfCookie, Read(rd.r, sizeOfCookie))

\* HeaderPrefix accepting every version
HeaderPrefixAnyVersion(rd) ==
    IF rd.err # "nil" \/ rd.n # 2 THEN FailHeader("cannot read header", rd.r)
    ELSE IF rd.bytes[1] \div 16 # BinRPCMagic
    THEN FailHeader("magic field did not match", rd.r)
    ELSE HeaderLength(((rd.bytes[2] \div 4) % 4) + 1, (rd.bytes[2] % 4) + 1,
                      Read(rd.r, ((rd.bytes[2] \div 4) % 4) + 1))

\* ReadHeader from its first read on
HeaderPrefix(rd) ==
    IF rd.err # "nil" \/ rd.n # 2 THEN FailHeader("cannot read header", rd.r)
    ELSE IF rd.bytes[1] \div 16 # BinRPCMagic
    THEN FailHeader("magic field did not match", rd.r)
    ELSE IF rd.bytes[1] % 16 # BinRPCVersion
    THEN FailHeader("version did not match", rd.r)
    ELSE HeaderLength(((rd.bytes[2] \div 4) % 4) + 1, (rd.bytes[2] % 4) + 1,
                      Read(rd.r, ((rd.bytes[2] \div 4) % 4) + 1))

ReadHeader(r) == HeaderPrefix(Read(r, 2))

\* ----------------------------------------------------------- ReadRecord

NoRecord == <<>>

\* return nil, err
Fail(err, r) == [err |-> err, rec |-> NoRecord, r |-> r]

RECURSIVE ReadRecord(_)
RECURSIVE StructLoop(_, _, _, _)

\* StructValue keeping one item per key, the last
StructValueByKey(type, items, size, avpName, avpValue) ==
    IF avpValue.err # "nil" THEN Fail(avpValue.err, avpValue.r)
    ELSE StructLoop(avpValue.r, type,
                    Append(SelectSeq(items, LAMBDA it : it.Key # avpName.Value.string),
                           StructItem(avpName.Value.string, avpValue.rec)),
                    size + avpName.size + avpValue.rec.size)

\* the for loop of case TypeStruct after the value of an item is read
StructValue(type, items, size, avpName, avpValue) ==
    IF avpValue.err # "nil" THEN Fail(avpValue.err, avpValue.r)
    ELSE StructLoop(avpValue.r, type,
                    Append(items, StructItem(avpName.Value.string, avpValue.rec)),
                    size + avpName.size + avpValue.rec.size)

\* the for loop of case TypeStruct after the key of an item is read
StructKey(type, items, size, avpName) ==
    IF avpName.err = errEndOfStruct
    THEN [err |-> "nil", rec |-> Record(type, ItemsV(items), size + 1), r |-> avpName.r]
    ELSE IF avpName.err # "nil" THEN Fail(avpName.err, avpName.r)
    ELSE IF avpName.rec.Type # TypeAVP
    THEN Fail("struct contains something else than avp", avpName.r)
    ELSE StructValue(type, items, size, avpName.rec, ReadRecord(avpName.r))

\* the for loop of case TypeStruct: items read so far, size the record.size so far
StructLoop(r, type, items, size) == StructKey(type, items, size, ReadRecord(r))

\* the switch of ReadRecord on the payload buf of a record of the given type
Interpret(r, type, size, buf, recSize) ==
    CASE type = TypeAVP \/ type = TypeString ->
            [err |-> "nil",
             rec |-> Record(type,
                        StringV(IF size = 0 THEN <<>> ELSE SubSeq(buf, 1, Len(buf) - 1)),
                        recSize),
             r |-> r]
      [] type = TypeInt ->
            [err |-> "nil",
             rec |-> Record(type, IntV(Accumulate(IntZero, buf)), recSize),
             r |-> r]
      [] type = TypeDouble ->
            [err |-> "nil",
             rec |-> Record(type,
                        Float64V(Float64OfThousandths(Accumulate(IntZero, buf))), recSize),
             r |-> r]
      [] type = TypeStruct -> StructLoop(r, type, <<>>, recSize)
      [] OTHER -> Fail("type error: type not implemented", r)

\* ReadRecord from the read of the value on: recSize is record.size
RecordValue(type, size, recSize, rd) ==
    IF rd.err # "nil" \/ rd.n # size THEN Fail("cannot read record value", rd.r)
    ELSE Interpret(rd.r, type, size, rd.bytes, recSize)

\* ReadRecord once the size of the value is known
RecordSized(r, type, size, recSize) ==
    RecordValue(type, size, recSize,
                IF size = 0 THEN ReadResult(0, <<>>, "nil", r) ELSE Read(r, size))

\* make([]byte, size) for an int size does not return when size is negative
\* or above maxAlloc, 2^48 on a 64-bit build: the runtime panics, and the
\* calls under way do not return either.
MakePanics(size) ==
    SubSeq(size, 1, IntBytes - 6) # Rep(0, IntBytes - 6)
    /\ size # Rep(0, IntBytes - 7) \o <<1>> \o Rep(0, 6)

\* what a call that panicked in make leaves in place of its error
MakeslicePanic == "panic: runtime error: makeslice: len out of range"

\* make([]byte, size) for a size that passes the test of makeslice returns when
\* the allocator finds the bytes: up to MaxLength on every machine, from there
\* to below 2^47, the address space of a process, on a machine with plenty of
\* memory only, and from 2^47 on never. Otherwise the runtime stops the
\* process: no call returns and no panic can be recovered.
Allocates(mem, size) ==
    \/ SubSeq(size, 1, IntBytes - 4) = Rep(0, IntBytes - 4) /\ size[IntBytes - 3] < 128
    \/ /\ mem = "plenty"
       /\ SubSeq(size, 1, IntBytes - 6) = Rep(0, IntBytes - 6)
       /\ size[IntBytes - 5] < 128

\* what a call leaves in place of its error when the allocator stopped the
\* process
OutOfMemory == "fatal error: runtime: out of memory"

\* ReadRecord from the read of the extended size field on
RecordSize(type, size0, rd) ==
    IF rd.err # "nil" \/ rd.n # size0 THEN Fail("cannot read record size", rd.r)
    ELSE IF MakePanics(Accumulate(IntZero, rd.bytes)) THEN Fail(MakeslicePanic, rd.r)
    ELSE IF ~Allocates(rd.r.mem, Accumulate(IntZero, rd.bytes))
    THEN Fail(OutOfMemory, rd.r)
    ELSE RecordSized(rd.r, type, LengthOf(Accumulate(IntZero, rd.bytes)),
                     1 + size0 + LengthOf(Accumulate(IntZero, rd.bytes)))

\* ReadRecord from the header byte on
RecordHeader(r, flag, size0, type) ==
    IF flag = 1 /\ size0 = 0 /\ type = TypeStruct THEN Fail(errEndOfStruct, r)
    ELSE IF flag = 1 THEN RecordSize(type, size0, Read(r, size0))
    ELSE RecordSized(r, type, size0, 1 + size0)

\* ReadRecord from its first read on
RecordFirst(rd) ==
    IF rd.err # "nil" \/ rd.n # 1 THEN Fail("cannot read record header", rd.r)
    ELSE RecordHeader(rd.r, rd.bytes[1] \div 128, (rd.bytes[1] \div 16) % 8,
                      rd.bytes[1] % 16)

ReadRecord(r) == RecordFirst(Read(r, 1))

\* ----------------------------------------------------------- ReadPacket

NoRecords == <<>>

\* the for loop of ReadPacket over the payload reader
RECURSIVE RecordsLoop(_, _, _, _)

\* the body of the loop once ReadRecord has returned rr
RecordsStep(payloadLength, read, records, rr) ==
    IF rr.err # "nil" THEN [err |-> rr.err, records |-> NoRecords]
    ELSE RecordsLoop(rr.r, payloadLength, read + rr.rec.size, Append(records, rr.rec))

RecordsLoop(payload, payloadLength, read, records) ==
    IF read < payloadLength
    THEN RecordsStep(payloadLength, read, records, ReadRecord(payload))
    ELSE [err |-> "nil", records |-> records]

\* CookieMismatch checking the cookie also when none is expected
CookieMismatchAlways(expectedCookie, header) == expectedCookie # header.Cookie

CookieMismatch(expectedCookie, header) ==
    expectedCookie # Rep(0, 4) /\ expectedCookie # header.Cookie

\* what ReadPacket returns, with the header it read and the source as it leaves it
PacketResult(err, records, header, r) ==
    [err |-> err, records |-> records, header |-> header, r |-> r]

\* ReadPacket once the payload is decoded
PacketDecoded(header, r, res) == PacketResult(res.err, res.records, header, r)

\* ReadPacket from io.ReadFull on
PacketPayload(header, full) ==
    IF full.err # "nil" THEN PacketResult(full.err, NoRecords, header, full.r)
    ELSE PacketDecoded(header, full.r,
                       RecordsLoop(Machine(BytesReader(full.bytes), full.r.mem),
                                   LengthOf(header.PayloadLength), 0, <<>>))

\* ReadPacket from ReadHeader on
PacketHeader(expectedCookie, hd) ==
    IF hd.err # "nil" THEN PacketResult(hd.err, NoRecords, NoHeader, hd.r)
    ELSE IF CookieMismatch(expectedCookie, hd.header)
    THEN PacketResult("expected cookie did not match", NoRecords, hd.header, hd.r)
    ELSE IF ~Allocates(hd.r.mem, hd.header.PayloadLength)
    THEN PacketResult(OutOfMemory, NoRecords, hd.header, hd.r)
    ELSE PacketPayload(hd.header, ReadFull(hd.r, LengthOf(hd.header.PayloadLength)))

ReadPacket(r, expectedCookie) ==
    PacketHeader(expectedCookie, ReadHeader(NewBufioReader(r)))

\* ---------------------------------------------------------- WritePacket

RECURSIVE EncodeAll(_, _)

\* the body of the for loop of WritePacket once the record is encoded
EncodedOne(values, payload, en) ==
    IF en.err # "nil" THEN [err |-> en.err, out |-> payload]
    ELSE EncodeAll(Tail(values), payload \o en.out)

\* the body of the for loop of WritePacket once the record is created
CreatedOne(values, payload, cr) ==
    IF cr.err # "nil" THEN [err |-> cr.err, out |-> payload]
    ELSE EncodedOne(values, payload, Encode(cr.rec))

\* the for loop of WritePacket: CreateRecord and Encode of each value into payload
EncodeAll(values, payload) ==
    IF values = <<>> THEN [err |-> "nil", out |-> payload]
    ELSE CreatedOne(values, payload, CreateRecord(Head(values)))

\* the second byte of the header: byte((len(lengthBE)-1)<<2 | len(cookieBytes) - 1),
\* in which | and - have the same precedence and group from the left
SizesByte(lenLength, lenCookie) == ToByte(BitOr((lenLength - 1) * 4, lenCookie) - 1)

\* the bytes of a sequence of writes, one after the other
RECURSIVE Concat(_)
Concat(writes) == IF writes = <<>> THEN <<>> ELSE Head(writes) \o Concat(Tail(writes))

\* the Write calls the sink receives from the bufio.Writer around it for
\* writer.Write(header), writer.Write(payload), writer.Flush(): the writer holds
\* up to BufSize bytes; a payload that does not fit in what the header leaves
\* fills the buffer, which is written out, and the rest follows in a second write
BufioWrites(header, payload) ==
    IF Len(payload) <= BufSize - Len(header) THEN <<header \o payload>>
    ELSE <<header \o SubSeq(payload, 1, BufSize - Len(header)),
           SubSeq(payload, BufSize - Len(header) + 1, Len(payload))>>

\* what WritePacket returns, with the writes and the bytes the sink has received
WriteResult(err, cookie, writes) ==
    [err |-> err, cookie |-> cookie, writes |-> writes, out |-> Concat(writes)]

\* the check WritePacket makes of the length field
LengthTooBig(lengthBE) == Len(lengthBE) > MaxSizeOfLength

\* the header WritePacket builds from the length field and the cookie bytes
HeaderBytes(lengthBE, cookieBytes) ==
    <<BitOr(BinRPCMagic * 16, BinRPCVersion),
      SizesByte(Len(lengthBE), Len(cookieBytes))>> \o lengthBE \o cookieBytes

\* WritePacket from the header on
PacketBytes(cookie, payload, cookieBytes, lengthBE) ==
    IF LengthTooBig(lengthBE)
    THEN WriteResult("packet length too big", Rep(0, 4), <<>>)
    ELSE WriteResult("nil", cookie,
                     BufioWrites(HeaderBytes(lengthBE, cookieBytes), payload))

\* WritePacket once the values are encoded
PacketEncoded(cookie, enc) ==
    IF enc.err # "nil" THEN WriteResult(enc.err, Rep(0, 4), <<>>)
    ELSE PacketBytes(cookie, enc.out, intToBytesBE(IntOfUint32(cookie)),
                     intToBytesBE(GoInt(Len(enc.out))))

\* WritePacket returning no error for an empty list of values
WritePacketSilent(values, cookie) ==
    IF Len(values) = 0 THEN WriteResult("nil", Rep(0, 4), <<>>)
    ELSE PacketEncoded(cookie, EncodeAll(values, <<>>))

\* WritePacket(w, values...) drawing cookie from rand.Uint32, to a sink that accepts
\* every write
WritePacket(values, cookie) ==
    IF Len(values) = 0 THEN WriteResult("missing values", Rep(0, 4), <<>>)
    ELSE PacketEncoded(cookie, EncodeAll(values, <<>>))

\* --------------------------------------------------------------- inputs

\* the most values one WritePacket call is given
MaxValues == 2

\* the length of the long string argument
LongLen == 253

\* a string of BigLen bytes is written: with its header the packet is larger
\* than the buffer of a bufio.Writer
BigLen == 4090

\* the most ReadPacket calls made on one connection
MaxReads == 2

\* "tm.stats"
TmStats == <<116, 109, 46, 115, 116, 97, 116, 115>>

\* a uint32 given by its bytes
U32(a, b, c, d) == <<a, b, c, d>>

\* the cookies rand.Uint32 is modelled to return: 0, values of 1, 2 and 3
\* significant bytes, and values of 4
Cookies ==
    {U32(0, 0, 0, 0), U32(0, 0, 0, 7), U32(0, 0, 1, 0), U32(0, 152, 131, 175),
     U32(111, 141, 162, 151), U32(255, 255, 255, 255)}

PacketInts == {GoInt(0), GoInt(142), GoInt(0 - 1)}
PacketStrings == {<<>>, TmStats, Rep(97, LongLen), Rep(97, BigLen)}
PacketFloats == {GoInt(1588), GoInt(1001)}

\* the argument lists of the three instantiations of WritePacket[T]
Lists(S) == UNION {[1..n -> S] : n \in 0..MaxValues}

ValueLists ==
    {[i \in DOMAIN l |-> IntV(l[i])] : l \in Lists(PacketInts)}
    \cup {[i \in DOMAIN l |-> StringV(l[i])] : l \in Lists(PacketStrings)}
    \cup {[i \in DOMAIN l |-> Float64V(l[i])] : l \in Lists(PacketFloats)}

\* what each Read of the connection hands out at most: one byte, a few bytes,
\* or all there is
Chunks == {1, 3, BufSize}

\* a connection hands out its bytes a few at a time only when it has no more
\* than MaxTrickle of them left to hand out
MaxTrickle == 1024

\* a packet a peer sends: a header of the given widths and a payload
PeerPacket(lengthBytes, cookieBytes, payload) ==
    <<BitOr(BinRPCMagic * 16, BinRPCVersion),
      (Len(lengthBytes) - 1) * 4 + (Len(cookieBytes) - 1)>>
    \o lengthBytes \o cookieBytes \o payload

PeerPayloads ==
    {<<>>,
     <<16, 42>>,                               \* Integer 42
     <<32, 1, 244, 17, 0>>,                    \* Integer 500, Text ""
     <<3, 37, 97, 0, 16, 1, 37, 97, 0, 16, 2, 131>>, \* {a: 1, a: 2}
     <<3, 37, 97, 0, 16, 1>>,                  \* a struct without its sentinel
     <<16>>,                                   \* a record running past the end
     <<16, 42, 33>>,                           \* a trailing partial record
     <<131>>,                                  \* a sentinel at top level
     <<4>>}                                    \* an Array

PeerCookies == {<<7>>, <<0, 7>>, <<0>>, <<111, 141, 162, 151>>}

\* up to MaxPackets packets of the peer are on the connection before the first
\* is read
MaxPackets == 2

\* the packets the peer sends after its first, under the cookie 9: Integer 7,
\* and Integer 500 with Text ""
FollowPayloads == {<<16, 7>>, <<32, 1, 244, 17, 0>>}

\* a cookie no packet of the model carries
OtherCookie == U32(1, 2, 3, 4)

\* -------------------------------------------------------------- actions

NoCall == [op |-> "none"]

\* what the caller gives ReadPacket as its source: the connection itself, or a
\* bufio.Reader of the default size it made around the connection, which
\* holds w bytes of it between the calls
Unwrapped == [bufio |-> FALSE, w |-> 0]

\* the source of the caller over the connection r
SourceOf(r, own) == [r EXCEPT !.bufio = own.bufio, !.w = own.w]

\* the number of bytes of the stream the caller's source has passed on
Position == rpos - reader.w

Init ==
    /\ stream = <<>>
    /\ rpos = 0
    /\ sent = <<>>
    /\ reads = 0
    /\ reader = Unwrapped
    /\ last = NoCall

\* bufio.NewReader(conn) by the caller, who from then on gives ReadPacket that
\* reader
NewReaderCall ==
    /\ stream = <<>>
    /\ reader = Unwrapped
    /\ reader' = [bufio |-> TRUE, w |-> 0]
    /\ UNCHANGED <<stream, rpos, sent, reads, last>>

\* a call of WritePacket with the connection as its sink
WritePacketCall ==
    /\ sent = <<>>
    /\ \E values \in ValueLists, cookie \in Cookies :
          LET w == WritePacket(values, cookie)
          IN  /\ stream' = stream \o w.out
              /\ sent' = IF w.err = "nil"
                         THEN Append(sent, [by |-> "WritePacket", values |-> values,
                                            cookie |-> w.cookie, out |-> w.out,
                                            payload |-> EncodeAll(values, <<>>).out])
                         ELSE sent
              /\ last' = [op |-> "WritePacket", values |-> values, drawn |-> cookie,
                          err |-> w.err, cookie |-> w.cookie, out |-> w.out,
                          writes |-> w.writes]
              /\ UNCHANGED <<rpos, reads, reader>>

\* the peer writes a packet to the connection
PeerSend ==
    /\ reads = 0
    /\ Len(sent) < MaxPackets
    /\ sent # <<>> => sent[Len(sent)].by = "peer"
    /\ \E payload \in (IF sent = <<>> THEN PeerPayloads ELSE FollowPayloads),
          cookieBytes \in (IF sent = <<>> THEN PeerCookies ELSE {<<9>>}) :
          LET out == PeerPacket(<<Len(payload)>>, cookieBytes, payload)
          IN  /\ stream' = stream \o out
              /\ sent' = Append(sent, [by |-> "peer", values |-> <<>>,
                                       cookie |-> AccumulateU32(Rep(0, 4), cookieBytes),
                                       out |-> out, payload |-> payload])
              /\ last' = [op |-> "PeerSend", out |-> out]
              /\ UNCHANGED <<rpos, reads, reader>>

\* the cookies a caller passes to ReadPacket: none, that of the packet sent, another
ExpectedCookies == {Rep(0, 4), OtherCookie} \cup {sent[i].cookie : i \in DOMAIN sent}

\* a call of ReadPacket with the caller's source; nth counts the calls on this
\* connection, inOrder tells that all those before it returned records, from is
\* the position of the source before the call
ReadPacketCall ==
    /\ sent # <<>>
    /\ reads < MaxReads
    /\ \E expectedCookie \in ExpectedCookies, mem \in Memories,
          chunk \in (IF Len(stream) - rpos > MaxTrickle THEN {BufSize} ELSE Chunks) :
          LET res == ReadPacket(SourceOf(Machine(Reader(stream, rpos, chunk), mem),
                                         reader),
                                expectedCookie)
          IN  /\ rpos' = res.r.pos
              /\ reads' = reads + 1
              /\ reader' = IF reader.bufio THEN [reader EXCEPT !.w = res.r.w]
                           ELSE reader
              /\ last' = [op |-> "ReadPacket", expectedCookie |-> expectedCookie,
                          chunk |-> chunk, mem |-> mem, from |-> Position,
                          err |-> res.err,
                          records |-> res.records, header |-> res.header,
                          nth |-> reads + 1,
                          inOrder |-> IF reads = 0 THEN TRUE
                                      ELSE last.inOrder /\ last.err = "nil"]
              /\ UNCHANGED <<stream, sent>>

\* the connection is closed and a new one opened
Reconnect ==
    /\ sent # <<>>
    /\ stream' = <<>>
    /\ rpos' = 0
    /\ sent' = <<>>
    /\ reads' = 0
    /\ reader' = Unwrapped
    /\ last' = NoCall

Next == NewReaderCall \/ WritePacketCall \/ PeerSend \/ ReadPacketCall \/ Reconnect

Spec == Init /\ [][Next]_vars

\* ------------------------------------------- calls on in-memory buffers

\* integers from -IntRange to IntRange are encoded, and those around the
\* powers of 256
IntRange == 300

\* doubles from -FloatRange/1000 to FloatRange/1000 are encoded
FloatRange == 1600

\* every string of up to MaxStrLen bytes over a small alphabet is encoded
MaxStrLen == 3

\* every byte sequence of up to MaxWire bytes over WireBytes is decoded
MaxWire == 5

\* structs of up to MaxItems items are decoded
MaxItems == 2

Seqs(S, n) == UNION {[1..k -> S] : k \in 0..n}

\* 2^32 and 2^32 + 5 as Go ints
WideInts == {<<0, 0, 0, 1, 0, 0, 0, 0>>, <<0, 0, 0, 1, 0, 0, 0, 5>>}

EncodeInts ==
    {GoInt(n) : n \in (0 - IntRange)..IntRange}
    \cup {GoInt(s * (b + d)) : s \in {1, 0 - 1}, b \in {65536, 8388608, 16777216},
                               d \in {0 - 3, 0 - 1, 0, 1}}
    \cup {GoInt(2147483647), GoInt(0 - 2147483647)}
    \cup WideInts

EncodeStrings ==
    Seqs({0, 97, 98}, MaxStrLen)
    \cup {Rep(97, n) : n \in {6, 7, 8, LongLen, LongLen + 1, LongLen + 2}}
    \cup {TmStats}

EncodeFloats == {GoInt(t) : t \in (0 - FloatRange)..FloatRange}

EncodeValues ==
    {IntV(i) : i \in EncodeInts} \cup {StringV(x) : x \in EncodeStrings}
    \cup {Float64V(m) : m \in EncodeFloats}

\* record headers and filler bytes: Integer of size 0 and 1, Struct, Array,
\* AttributeName of size 0, the sentinel, Struct with a 1-byte size field
WireBytes == {0, 16, 3, 4, 5, 131, 147}

\* records with a size field of 7 bytes: a Text that declares 2^56 - 1 bytes,
\* alone, after the Integer 1 and as the value of the item "a" of a struct, and
\* Texts that declare 1 byte, 2^48 bytes and 2^47 bytes; a Text with a size field
\* of 4 bytes that declares 2^31 bytes
WideSizeWires ==
    {<<241, 255, 255, 255, 255, 255, 255, 255, 1, 2>>,
     <<16, 1, 241, 255, 255, 255, 255, 255, 255, 255, 1, 2>>,
     <<TypeStruct, 37, 97, 0, 241, 255, 255, 255, 255, 255, 255, 255, 1, 2,
       128 + TypeStruct>>,
     <<241, 0, 0, 0, 0, 0, 0, 1, 0>>,
     <<241, 1, 0, 0, 0, 0, 0, 0, 97>>,
     <<241, 0, 128, 0, 0, 0, 0, 0, 97>>,
     <<193, 128, 0, 0, 0, 97>>}

WireInputs == Seqs(WireBytes, MaxWire) \cup WideSizeWires

\* the items of a struct as a peer holds them: a key and an Integer, a Text or a
\* nested struct
ItemValues ==
    {IntV(GoInt(1)), IntV(GoInt(2)), StringV(<<120>>), ItemsV(<<>>),
     ItemsV(<<[Key |-> <<97>>, Value |-> IntV(GoInt(1))]>>)}

ItemKeys == {<<97>>, <<98>>}

ItemLists == Seqs([Key : ItemKeys, Value : ItemValues], MaxItems)

\* the bytes of a struct on the wire: for each item an AttributeName record of the
\* key and the record of the value, then the sentinel
RECURSIVE WireOfItems(_)
WireOfValue(v) ==
    CASE IsIntV(v) -> Encode(Record(TypeInt, v, 0)).out
      [] IsStringV(v) -> Encode(Record(TypeString, v, 0)).out
      [] OTHER -> <<TypeStruct>> \o WireOfItems(v.items) \o <<128 + TypeStruct>>

WireOfItems(items) ==
    IF items = <<>> THEN <<>>
    ELSE EncodeBody(TypeAVP, Head(items).Key \o <<0>>)
         \o WireOfValue(Head(items).Value) \o WireOfItems(Tail(items))

WireOfStruct(items) == <<TypeStruct>> \o WireOfItems(items) \o <<128 + TypeStruct>>

\* a decoded value without the byte counts of its records
RECURSIVE PlainItems(_)
PlainValue(rec) ==
    IF rec.Type = TypeStruct THEN ItemsV(PlainItems(rec.Value.items)) ELSE rec.Value

PlainItems(items) ==
    [i \in DOMAIN items |-> [Key |-> items[i].Key, Value |-> PlainValue(items[i].Value)]]

\* up to MaxHeaderTail bytes follow the two-byte prefix of a header that is read
MaxHeaderTail == 9

\* first bytes of a header: magic and version, another version, another magic
HeaderFirsts == {161, 160, 162, 177, 33, 17}

\* second bytes of a header: every pair of widths, and two with the high bits set
HeaderSeconds == 0..15 \cup {115, 255}

\* the bytes that follow the prefix are the first bytes of one of these
HeaderTails ==
    {<<11, 111, 141, 162, 151, 0, 255, 128, 1, 2, 3, 4>>,
     <<255, 255, 255, 255, 255, 255, 255, 255, 255, 255, 255, 255>>,
     <<0, 0, 0, 1, 0, 0, 0, 0, 9, 9, 9, 9>>,
     <<128, 0, 1, 2, 7, 0, 0, 9, 1, 1, 1, 1>>}

HeaderInputs ==
    {<<>>, <<161>>, <<10>>}
    \cup {<<a, b>> \o SubSeq(t, 1, k) :
             a \in HeaderFirsts, b \in HeaderSeconds, t \in HeaderTails,
             k \in 0..MaxHeaderTail}

\* Integer records with a payload of up to MaxIntPayload bytes are decoded
MaxIntPayload == 4

\* the payloads of the Integer records decoded: minimal and padded, top bit set
\* and clear
IntPayloads == Seqs({0, 42, 127, 128, 255}, MaxIntPayload)

\* an Integer record with the inline size: the header byte and the payload
WireOfInt(payload) == <<Len(payload) * 16 + TypeInt>> \o payload

\* up to MaxAfter bytes follow the header byte of a record of an unsupported type
MaxAfter == 3

\* the type tags ReadRecord does not implement
UnsupportedTypes == {TypeArray, TypeBytes} \cup 7..15

\* records of an unsupported type: a header byte with either size form and a
\* size of 0, 1 or 2, and the first bytes of one of three byte strings
UnsupportedRecords ==
    {<<flag * 128 + size * 16 + type>> \o SubSeq(t, 1, k) :
        flag \in {0, 1}, size \in 0..2, type \in UnsupportedTypes,
        t \in {<<1, 2, 3, 4, 5>>, <<0, 0, 0, 0, 0>>, <<2, 131, 5, 0, 131>>},
        k \in 0..MaxAfter}
    \cup {<<255, 161, 15, 251, 97, 97, 97, 97>>}

\* where a peer puts such a record: alone, as the value of the item "a" of a
\* struct, or in the payload of a packet after the Integer 1
Places == {"record", "struct", "packet"}

WireOfPlace(place, rec) ==
    CASE place = "record" -> rec
      [] place = "struct" ->
            <<TypeStruct>> \o EncodeBody(TypeAVP, <<97, 0>>) \o rec \o <<128 + TypeStruct>>
      [] OTHER -> PeerPacket(<<2 + Len(rec)>>, <<7>>, <<16, 1>> \o rec)

\* structs nested up to MaxNesting levels below the outermost are decoded
MaxNesting == 16

\* the bytes of a struct whose one item "a" holds a struct, and so on d times,
\* the innermost struct having no items
RECURSIVE WireOfNested(_)
WireOfNested(d) ==
    IF d = 0 THEN <<TypeStruct, 128 + TypeStruct>>
    ELSE <<TypeStruct>> \o EncodeBody(TypeAVP, <<97, 0>>) \o WireOfNested(d - 1)
         \o <<128 + TypeStruct>>

\* the items of a decoded struct whose value is a struct
StructValued(items) == {i \in DOMAIN items : items[i].Value.Type = TypeStruct}

\* the number of structs nested one in the other below a decoded record, 0
\* for a record that is no struct and for a struct none of whose items holds
\* one: the depth the calls of ReadRecord for values reached below the first
RECURSIVE NestingOf(_)
NestingOf(rec) ==
    IF rec = NoRecord \/ rec.Type # TypeStruct THEN 0
    ELSE IF StructValued(rec.Value.items) = {} THEN 0
    ELSE CHOOSE d \in {1 + NestingOf(rec.Value.items[i].Value) :
                          i \in StructValued(rec.Value.items)} :
            \A j \in StructValued(rec.Value.items) :
                1 + NestingOf(rec.Value.items[j].Value) <= d

\* the lengths payload.Len() of the payloads WritePacket has encoded, as Go
\* ints: lengths of 1 to 4 bytes, and lengths from 2^32 on
PayloadLengths ==
    {GoInt(n) : n \in {1, 255, 256, 65535, 65536, 16777215, 16777216, 2147483647}}
    \cup {<<0, 0, 0, 0, 255, 255, 255, 255>>, <<0, 0, 0, 1, 0, 0, 0, 0>>,
          <<0, 0, 0, 1, 0, 0, 0, 3>>, <<0, 0, 1, 0, 0, 0, 0, 0>>}

\* Each call below is made once, on a new buffer.

\* CreateRecord(v) and record.Encode(&buffer)
EncodeCall ==
    /\ last = NoCall
    /\ \E v \in EncodeValues :
          last' = [op |-> "Encode", record |-> CreateRecord(v).rec,
                   err |-> Encode(CreateRecord(v).rec).err,
                   out |-> Encode(CreateRecord(v).rec).out]
    /\ UNCHANGED <<stream, rpos, sent, reads, reader>>

\* what a call of ReadRecord on bytes.NewReader(data) leaves: consumed is the
\* number of bytes taken from the reader
ReadRecordResult(op, data, given, rr) ==
    [op |-> op, data |-> data, given |-> given, err |-> rr.err, rec |-> rr.rec,
     consumed |-> rr.r.pos]

\* ReadRecord on the bytes Encode wrote
ReadBackCall ==
    /\ last.op = "Encode"
    /\ last.err = "nil"
    /\ last' = ReadRecordResult("ReadBack", last.out, last.record,
                                ReadRecord(BytesReader(last.out)))
    /\ UNCHANGED <<stream, rpos, sent, reads, reader>>

\* of a long string, ReadRecord is given the header Encode wrote and the first
\* LongHead bytes of the string
LongHead == 8

\* CreateRecord(strings.Repeat("a", n)) and record.Encode(&buffer) for the
\* strings whose payload, the NUL counted, is of 2^32 and of 2^32 + 5 bytes,
\* then ReadRecord on the buffer: data is the part of the buffer ReadRecord
\* is given. On a machine that does not grant a buffer of that size Encode
\* does not return.
EncodeLongCall ==
    /\ last = NoCall
    /\ \E sizeOfValue \in WideInts, mem \in Memories :
          last' = IF ~Allocates(mem, sizeOfValue)
                  THEN [op |-> "EncodeLong", data |-> <<>>,
                        given |-> [sizeOfValue |-> sizeOfValue, mem |-> mem,
                                   err |-> OutOfMemory, header |-> <<>>],
                        err |-> OutOfMemory, rec |-> NoRecord, consumed |-> 0]
                  ELSE [ReadRecordResult("EncodeLong",
                                         EncodeHeader(TypeString, sizeOfValue)
                                             \o Rep(97, LongHead),
                                         <<>>,
                                         ReadRecord(Machine(BytesReader(
                                             EncodeHeader(TypeString, sizeOfValue)
                                                 \o Rep(97, LongHead)), mem)))
                        EXCEPT !.given = [sizeOfValue |-> sizeOfValue, mem |-> mem,
                                          err |-> "nil",
                                          header |-> EncodeHeader(TypeString,
                                                                  sizeOfValue)]]
    /\ UNCHANGED <<stream, rpos, sent, reads, reader>>

\* ReadRecord on bytes.NewReader(data)
ReadRecordCall ==
    /\ last = NoCall
    /\ \E data \in WireInputs, mem \in Memories :
          last' = ReadRecordResult("ReadRecord", data, <<>>,
                                   ReadRecord(Machine(BytesReader(data), mem)))
    /\ UNCHANGED <<stream, rpos, sent, reads, reader>>

\* ReadRecord on the bytes of a struct a peer sent
ReadStructCall ==
    /\ last = NoCall
    /\ \E items \in ItemLists :
          last' = ReadRecordResult("ReadStruct", WireOfStruct(items), items,
                                   ReadRecord(BytesReader(WireOfStruct(items))))
    /\ UNCHANGED <<stream, rpos, sent, reads, reader>>

\* what a call of ReadPacket on bytes.NewReader(data) leaves
ReadBytesResult(data, payload, declared, res) ==
    [op |-> "ReadPacketBytes", data |-> data, payload |-> payload,
     declared |-> declared, err |-> res.err, records |-> res.records,
     header |-> res.header, consumed |-> res.r.pos]

\* ReadPacket on bytes.NewReader(data), data a header declaring the length of
\* the payload that follows or one byte more, and no cookie expected
ReadPacketBytesCall ==
    /\ last = NoCall
    /\ \E payload \in WireInputs, more \in {0, 1}, mem \in Memories :
          last' = ReadBytesResult(PeerPacket(<<Len(payload) + more>>, <<7>>, payload),
                      payload, Len(payload) + more,
                      ReadPacket(Machine(BytesReader(PeerPacket(<<Len(payload) + more>>,
                                                                <<7>>, payload)),
                                         mem),
                                 Rep(0, 4)))
    /\ UNCHANGED <<stream, rpos, sent, reads, reader>>

\* what a call of ReadHeader on data leaves: consumed is the number of bytes
\* taken from the reader
ReadHeaderResult(data, chunk, hd) ==
    [op |-> "ReadHeader", data |-> data, chunk |-> chunk, err |-> hd.err,
     header |-> hd.header, consumed |-> hd.r.pos]

\* ReadHeader on a reader over data that hands out at most chunk bytes per Read
ReadHeaderCall ==
    /\ last = NoCall
    /\ \E data \in HeaderInputs, chunk \in Chunks :
          last' = ReadHeaderResult(data, chunk, ReadHeader(Reader(data, 0, chunk)))
    /\ UNCHANGED <<stream, rpos, sent, reads, reader>>

\* ReadRecord on an Integer record a peer sent
ReadIntCall ==
    /\ last = NoCall
    /\ \E payload \in IntPayloads :
          last' = ReadRecordResult("ReadInt", WireOfInt(payload), payload,
                                   ReadRecord(BytesReader(WireOfInt(payload))))
    /\ UNCHANGED <<stream, rpos, sent, reads, reader>>

\* getMinBinarySizeOfInt(value)
MinSizeCall ==
    /\ last = NoCall
    /\ \E value \in EncodeInts :
          last' = [op |-> "MinSize", value |-> value,
                   size |-> getMinBinarySizeOfInt(value)]
    /\ UNCHANGED <<stream, rpos, sent, reads, reader>>

\* what reading a record of an unsupported type leaves: result is the record
\* ReadRecord returned or the records ReadPacket returned
ReadUnsupportedResult(place, rec, err, result) ==
    [op |-> "ReadUnsupported", place |-> place, unsupported |-> rec,
     data |-> WireOfPlace(place, rec), err |-> err, result |-> result]

\* ReadRecord, or ReadPacket with no cookie expected, on bytes that hold a record
\* of an unsupported type
ReadUnsupportedCall ==
    /\ last = NoCall
    /\ \E place \in Places, rec \in UnsupportedRecords :
          last' = IF place = "packet"
                  THEN ReadUnsupportedResult(place, rec,
                          ReadPacket(BytesReader(WireOfPlace(place, rec)), Rep(0, 4)).err,
                          ReadPacket(BytesReader(WireOfPlace(place, rec)),
                                     Rep(0, 4)).records)
                  ELSE ReadUnsupportedResult(place, rec,
                          ReadRecord(BytesReader(WireOfPlace(place, rec))).err,
                          ReadRecord(BytesReader(WireOfPlace(place, rec))).rec)
    /\ UNCHANGED <<stream, rpos, sent, reads, reader>>

\* ReadRecord on the bytes of structs nested depth levels deep
ReadNestedCall ==
    /\ last = NoCall
    /\ \E d \in 0..MaxNesting :
          last' = [op |-> "ReadNested", depth |-> d, data |-> WireOfNested(d),
                   err |-> ReadRecord(BytesReader(WireOfNested(d))).err,
                   rec |-> ReadRecord(BytesReader(WireOfNested(d))).rec,
                   nested |-> NestingOf(ReadRecord(BytesReader(WireOfNested(d))).rec)]
    /\ UNCHANGED <<stream, rpos, sent, reads, reader>>

\* what record.Encode(&buffer) leaves for a Struct record that holds the items
\* given
EncodeStructResult(items, record, en) ==
    [op |-> "EncodeStruct", given |-> items, record |-> record, err |-> en.err,
     out |-> en.out]

\* record.Encode(&buffer) on the Struct record ReadRecord returned for the bytes
\* of a struct a peer sent
EncodeStructCall ==
    /\ last = NoCall
    /\ \E items \in ItemLists :
          last' = EncodeStructResult(items,
                      ReadRecord(BytesReader(WireOfStruct(items))).rec,
                      Encode(ReadRecord(BytesReader(WireOfStruct(items))).rec))
    /\ UNCHANGED <<stream, rpos, sent, reads, reader>>

\* WritePacket from the encoded payload to the header, for a payload of the
\* given length: the error returned and the header built. The payload itself is
\* not held.
WriteHeaderResult(length, cookie, lengthBE, cookieBytes) ==
    [op |-> "WriteHeader", length |-> length, cookie |-> cookie,
     lengthBE |-> lengthBE,
     err |-> IF LengthTooBig(lengthBE) THEN "packet length too big" ELSE "nil",
     header |-> IF LengthTooBig(lengthBE) THEN <<>>
                ELSE HeaderBytes(lengthBE, cookieBytes)]

WriteHeaderCall ==
    /\ last = NoCall
    /\ \E length \in PayloadLengths, cookie \in Cookies :
          last' = WriteHeaderResult(length, cookie, intToBytesBE(length),
                                    intToBytesBE(IntOfUint32(cookie)))
    /\ UNCHANGED <<stream, rpos, sent, reads, reader>>

\* a record and the records nested in it as keys' values
RECURSIVE SubRecords(_)
SubRecords(rec) ==
    IF rec.Type # TypeStruct THEN {rec}
    ELSE {rec} \cup UNION {SubRecords(rec.Value.items[i].Value) :
                              i \in DOMAIN rec.Value.items}

\* the records the last call returned: that of CreateRecord, that of ReadRecord,
\* those of ReadPacket
Returned ==
    CASE last.op = "Encode" -> {last.record}
      [] last.op \in {"ReadBack", "ReadRecord", "ReadStruct", "ReadInt"}
           /\ last.err = "nil" -> {last.rec}
      [] last.op = "ReadPacketBytes" /\ last.err = "nil" ->
           {last.records[i] : i \in DOMAIN last.records}
      [] OTHER -> {}

\* the four accessors called on a record the last call returned, or on one
\* nested in it
AccessCall ==
    /\ \E top \in Returned : \E record \in SubRecords(top) :
          last' = [op |-> "Access", record |-> record, nested |-> record # top,
                   string |-> RecordString(record), int |-> RecordInt(record),
                   double |-> RecordDouble(record),
                   items |-> RecordStructItems(record)]
    /\ UNCHANGED <<stream, rpos, sent, reads, reader>>

\* Text records of up to MaxScanLen characters are scanned
MaxScanLen == 3

\* the numerals around the ends of the int and of the uint64: 2^31, 2^63 - 1,
\* 2^63, -2^63, -2^63 - 1, 2^64 - 1, 2^64, twenty nines, and 2^64 with a letter
\* after it
LongTexts ==
    {<<50, 49, 52, 55, 52, 56, 51, 54, 52, 56>>,
     <<57, 50, 50, 51, 51, 55, 50, 48, 51, 54, 56, 53, 52, 55, 55, 53, 56, 48, 55>>,
     <<57, 50, 50, 51, 51, 55, 50, 48, 51, 54, 56, 53, 52, 55, 55, 53, 56, 48, 56>>,
     <<45, 57, 50, 50, 51, 51, 55, 50, 48, 51, 54, 56, 53, 52, 55, 55, 53, 56, 48, 56>>,
     <<45, 57, 50, 50, 51, 51, 55, 50, 48, 51, 54, 56, 53, 52, 55, 55, 53, 56, 48, 57>>,
     <<49, 56, 52, 52, 54, 55, 52, 52, 48, 55, 51, 55, 48, 57, 53, 53, 49, 54, 49, 53>>,
     <<49, 56, 52, 52, 54, 55, 52, 52, 48, 55, 51, 55, 48, 57, 53, 53, 49, 54, 49, 54>>,
     Rep(57, 20),
     <<49, 56, 52, 52, 54, 55, 52, 52, 48, 55, 51, 55, 48, 57, 53, 53, 49, 54, 49, 54, 97>>}

\* the records scanned: those CreateRecord makes of ints, of strings of the
\* characters 1, 5, -, +, the point and a, of the long numerals and of
\* float64s, two structs and an AttributeName read from the wire, and records
\* whose fields a caller set by hand: every Type with a Value of every dynamic
\* type and with none
ScanRecords ==
    {CreateRecord(v).rec :
        v \in {IntV(GoInt(n)) : n \in {0, 7, 0 - 15, 142}}
              \cup {StringV(x) : x \in Seqs({49, 53, 45, 43, 46, 97}, MaxScanLen)
                                       \cup LongTexts}
              \cup {Float64V(GoInt(t)) : t \in {0, 5, 1588, 0 - 1500}}}
    \cup {ReadRecord(BytesReader(w)).rec :
             w \in {WireOfStruct(<<>>),
                    WireOfStruct(<<StructItem(<<97>>, IntV(GoInt(1)))>>),
                    EncodeBody(TypeAVP, <<49, 0>>)}}
    \cup {Record(type, value, 0) :
             type \in {TypeInt, TypeString, TypeDouble, TypeStruct, TypeBytes},
             value \in {IntV(GoInt(7)), StringV(<<49>>), Float64V(GoInt(5)),
                        ItemsV(<<>>), NilV}}

\* the variables Scan is given a pointer to, with the values they hold before
\* the call, one of them of a type Scan does not know, and the nil pointers
ScanDests ==
    {Dest("string", StringV(<<120>>)), Dest("int", IntV(GoInt(9))),
     Dest("float64", Float64Dec(9, 0)),
     Dest("items", ItemsV(<<StructItem(<<122>>, Record(TypeInt, IntV(IntZero), 0))>>)),
     Dest("bool", [bool |-> FALSE])}
    \cup {Dest(kind, NilV) : kind \in {"string", "int", "float64", "items"}}

\* record.Scan(&dest); the long numerals are not scanned into a float64
ScanCall ==
    /\ last = NoCall
    /\ \E record \in ScanRecords, dest \in ScanDests :
          /\ dest.kind = "float64" /\ IsStringV(record.Value) =>
                record.Value.string \notin LongTexts
          /\ last' = [op |-> "Scan", record |-> record, before |-> dest,
                      err |-> Scan(record, dest).err,
                      dest |-> Scan(record, dest).dest]
    /\ UNCHANGED <<stream, rpos, sent, reads, reader>>

CodecNext ==
    \/ EncodeCall
    \/ EncodeLongCall
    \/ ReadBackCall
    \/ ReadRecordCall
    \/ ReadStructCall
    \/ ReadPacketBytesCall
    \/ ReadHeaderCall
    \/ ReadIntCall
    \/ MinSizeCall
    \/ ReadUnsupportedCall
    \/ ReadNestedCall
    \/ EncodeStructCall
    \/ WriteHeaderCall
    \/ AccessCall
    \/ ScanCall

SpecCodec == Init /\ [][CodecNext]_vars

\* --------------------------------------------------------------- claims

\* an error that a call returned: the call came back, and not with nil
ReturnsError(err) ==
    err \notin {"nil", MakeslicePanic, OutOfMemory, ConversionPanic, NilPanic}

\* the type tag WritePacket gives a value
TagOf(v) ==
    CASE IsIntV(v) -> TypeInt [] IsStringV(v) -> TypeString [] OTHER -> TypeDouble

\* the sum of the consumed-byte counts of records
RECURSIVE SumSizes(_)
SumSizes(records) ==
    IF records = <<>> THEN 0 ELSE Head(records).size + SumSizes(Tail(records))

\* whether n records read one after the other from r end exactly at position
\* declared, going by the position of the reader alone
RECURSIVE TilesFrom(_, _, _)
TilesNext(rr, declared, n) == rr.err = "nil" /\ TilesFrom(rr.r, declared, n)

TilesFrom(r, declared, n) ==
    IF n = 0 THEN r.pos = declared ELSE TilesNext(ReadRecord(r), declared, n - 1)

\* the first ReadPacket on a connection that holds one packet WritePacket wrote,
\* given the cookie WritePacket returned, the source handing out all it holds
ReadsBack ==
    /\ last.op = "ReadPacket"
    /\ last.from = 0
    /\ last.chunk = BufSize
    /\ sent[1].by = "WritePacket"
    /\ last.expectedCookie = sent[1].cookie

\* C1: the packet WritePacket wrote, read by ReadPacket with the cookie returned,
\* gives no error and one record per value, in order, with the value and its tag.
C1_PacketRoundTrip ==
    ReadsBack =>
        /\ last.err = "nil"
        /\ Len(last.records) = Len(sent[1].values)
        /\ \A i \in DOMAIN sent[1].values :
              /\ last.records[i].Type = TagOf(sent[1].values[i])
              /\ last.records[i].Value = sent[1].values[i]

\* C2: in the header WritePacket emits, bits 3-2 of the second byte are the number
\* of length bytes written less one and bits 1-0 the number of cookie bytes
\* written less one, and ReadHeader on it returns the written length and cookie.
C2_SizesByte ==
    (last.op = "WritePacket" /\ last.err = "nil") =>
        /\ (last.out[2] \div 4) % 4
              = Len(last.out) - 2 - Len(sent[1].payload)
                - Len(intToBytesBE(IntOfUint32(last.cookie))) - 1
        /\ last.out[2] % 4 = Len(intToBytesBE(IntOfUint32(last.cookie))) - 1
        /\ ReadHeader(BytesReader(last.out)).err = "nil"
        /\ ReadHeader(BytesReader(last.out)).header
              = Header(GoInt(Len(sent[1].payload)), last.cookie)

\* C3: ReadPacket returns records only when their consumed-byte counts sum to the
\* declared payload length and the records tile the payload exactly; otherwise it
\* returns an error and no records.
C3_LengthInvariant ==
    last.op = "ReadPacketBytes" =>
        /\ last.err = "nil" =>
              /\ SumSizes(last.records) = last.declared
              /\ Len(last.payload) = last.declared
              /\ TilesFrom(BytesReader(last.payload), last.declared, Len(last.records))
        /\ last.err # "nil" => ReturnsError(last.err) /\ last.records = NoRecords

\* what decoding the packet at position from of the stream gives when no cookie
\* is checked and the source hands out all it holds
DecodedPayload(hd, full) ==
    IF full.err # "nil" THEN [err |-> full.err, records |-> NoRecords]
    ELSE RecordsLoop(Machine(BytesReader(full.bytes), hd.r.mem),
                     LengthOf(hd.header.PayloadLength), 0, <<>>)

DecodedHeader(hd) ==
    IF ~Allocates(hd.r.mem, hd.header.PayloadLength)
    THEN [err |-> OutOfMemory, records |-> NoRecords]
    ELSE DecodedPayload(hd, ReadFull(hd.r, LengthOf(hd.header.PayloadLength)))

DecodedAt(from) ==
    DecodedHeader(ReadHeader(Machine(Reader(stream, from, Len(stream)), last.mem)))

\* C4: with a non-zero expectedCookie that differs from the header's cookie
\* ReadPacket returns an error and no records; with an equal one, or with 0, it
\* decodes the packet.
C4_CookieCorrelation ==
    (last.op = "ReadPacket" /\ last.header # NoHeader) =>
        IF last.expectedCookie # Rep(0, 4) /\ last.expectedCookie # last.header.Cookie
        THEN ReturnsError(last.err) /\ last.records = NoRecords
        ELSE /\ last.err = DecodedAt(last.from).err
             /\ last.records = DecodedAt(last.from).records

C4_Witness ==
    /\ last.op = "ReadPacket"
    /\ last.header # NoHeader
    /\ last.expectedCookie = OtherCookie
    /\ last.header.Cookie = U32(0, 0, 0, 7)
    /\ last.err = "expected cookie did not match"

\* the position of the first byte after the packet whose header is at from
PacketEnd(from, header) ==
    from + 2 + (((stream[from + 2] \div 4) % 4) + 1) + ((stream[from + 2] % 4) + 1)
    + LengthOf(header.PayloadLength)

\* C5: when ReadPacket fails with a cookie mismatch the source is left at the
\* first byte after the rejected packet.
C5_MismatchDrains ==
    (/\ last.op = "ReadPacket"
     /\ last.err = "expected cookie did not match"
     /\ last.from = 0
     /\ last.header = Header(GoInt(Len(sent[1].payload)), sent[1].cookie)) =>
        Position = PacketEnd(last.from, last.header)

\* C6: ReadRecord on the bytes Encode wrote for an integer returns an Integer
\* record with that value, whose consumed-byte count is the number of bytes written.
C6_IntRoundTrip ==
    (last.op = "ReadBack" /\ last.given.Type = TypeInt) =>
        /\ last.err = "nil"
        /\ last.rec.Type = TypeInt
        /\ last.rec.Value = last.given.Value
        /\ last.rec.size = Len(last.data)

\* C7: ReadRecord on the bytes Encode wrote for a string returns a Text record
\* with that string, without the trailing NUL; of a long string of the letter
\* a, the record returned holds a string of that length.
C7_StringRoundTrip ==
    /\ (last.op = "ReadBack" /\ last.given.Type = TypeString) =>
          /\ last.err = "nil"
          /\ last.rec.Type = TypeString
          /\ last.rec.Value = last.given.Value
    /\ (last.op = "EncodeLong" /\ last.given.err = "nil"
            /\ last.consumed < Len(last.data)) =>
          /\ last.err = "nil"
          /\ last.rec.Type = TypeString
          /\ GoInt(Len(last.rec.Value.string) + 1) = last.given.sizeOfValue

\* C8: Encode of the double t/1000 emits a Double record whose payload is the
\* big-endian integer encoding of t, and ReadRecord on it returns the Double t/1000.
C8_DoubleFixedPoint ==
    /\ (last.op = "Encode" /\ last.record.Type = TypeDouble) =>
          /\ last.err = "nil"
          /\ last.out = EncodeBody(TypeDouble, intToBytesBE(last.record.Value.float64))
    /\ (last.op = "ReadBack" /\ last.given.Type = TypeDouble) =>
          /\ last.err = "nil"
          /\ last.rec.Type = TypeDouble
          /\ last.rec.Value = last.given.Value

\* C9: a struct decodes to its items in wire order, every item kept, items with
\* the same key included.
C9_StructItemsKept ==
    last.op = "ReadStruct" =>
        /\ last.err = "nil"
        /\ last.rec.Type = TypeStruct
        /\ PlainItems(last.rec.Value.items) = last.given

C9_Witness ==
    /\ last.op = "ReadStruct"
    /\ Len(last.given) = 2
    /\ last.given[1].Key = last.given[2].Key
    /\ last.given[1].Value # last.given[2].Value
    /\ Len(last.rec.Value.items) = 2
    /\ last.rec.Value.items[1].Key = last.rec.Value.items[2].Key

\* the bytes of the items of a struct a peer built: for each item the record of
\* its key as the peer wrote it and the consumed-byte count of its value
RECURSIVE ItemsSize(_)
ItemsSize(items) ==
    IF items = <<>> THEN 0
    ELSE Len(EncodeBody(TypeAVP, Head(items).Key \o <<0>>)) + Head(items).Value.size
         + ItemsSize(Tail(items))

\* a struct, at every nesting depth, counts its header byte, the records of its
\* keys and values, and its sentinel
RECURSIVE SizesAddUp(_)
SizesAddUp(rec) ==
    rec.Type = TypeStruct =>
        /\ rec.size = 1 + ItemsSize(rec.Value.items) + 1
        /\ \A i \in DOMAIN rec.Value.items : SizesAddUp(rec.Value.items[i].Value)

\* C10: the consumed-byte count of every record ReadRecord decodes is the number
\* of bytes it took from the source, and that of a struct is the bytes of its
\* header, of the records of its keys and values, and of its sentinel.
C10_ByteAccounting ==
    /\ (last.op \in {"ReadRecord", "ReadStruct", "ReadBack"} /\ last.err = "nil") =>
          last.rec.size = last.consumed
    /\ (last.op = "ReadStruct" /\ last.err = "nil") => SizesAddUp(last.rec)

\* the width of the length field and of the cookie field a header names
LengthWidth(data) == ((data[2] \div 4) % 4) + 1
CookieWidth(data) == (data[2] % 4) + 1

\* a header whose first byte is magic and version
WellFormedPrefix(data) ==
    Len(data) >= 2 /\ data[1] = BinRPCMagic * 16 + BinRPCVersion

\* a header all of whose bytes are there
WholeHeader(data) ==
    WellFormedPrefix(data) /\ Len(data) >= 2 + LengthWidth(data) + CookieWidth(data)

\* C11: on a whole header, read from a source that hands out all it holds,
\* ReadHeader returns the big-endian unsigned value of the length bytes and of
\* the cookie bytes, and takes 2 + length width + cookie width bytes.
C11_HeaderDecoding ==
    (last.op = "ReadHeader" /\ last.chunk = BufSize /\ WholeHeader(last.data)) =>
        /\ last.err = "nil"
        /\ last.header.PayloadLength
              = Rep(0, IntBytes - LengthWidth(last.data))
                \o SubSeq(last.data, 3, 2 + LengthWidth(last.data))
        /\ last.header.Cookie
              = Rep(0, 4 - CookieWidth(last.data))
                \o SubSeq(last.data, 3 + LengthWidth(last.data),
                          2 + LengthWidth(last.data) + CookieWidth(last.data))
        /\ last.consumed = 2 + LengthWidth(last.data) + CookieWidth(last.data)

C11_Witness ==
    /\ last.op = "ReadHeader"
    /\ last.chunk = BufSize
    /\ last.data = <<161, 3, 11, 111, 141, 162, 151>>
    /\ last.header = Header(GoInt(11), U32(111, 141, 162, 151))
    /\ last.consumed = 7

\* the Go int that is the big-endian two's-complement value of the bytes payload
TwosComplement(payload) ==
    Rep(IF payload # <<>> /\ payload[1] >= 128 THEN 255 ELSE 0, IntBytes - Len(payload))
    \o payload

\* C12: ReadRecord on an Integer record returns the big-endian two's-complement
\* value of its payload: negative when the top bit is set, 0 for no payload, the
\* same for a padded encoding.
C12_IntDecoding ==
    last.op = "ReadInt" =>
        /\ last.err = "nil"
        /\ last.rec.Type = TypeInt
        /\ last.rec.Value = IntV(TwosComplement(last.given))

\* whether k bytes hold the Go int x in two's-complement form
FitsIn(x, k) == x = TwosComplement(SubSeq(x, IntBytes - k + 1, IntBytes))

\* C13: for an integer that 4 bytes hold, getMinBinarySizeOfInt returns the
\* smallest count from 1 to 4 of bytes that hold it in two's-complement form.
C13_MinimalSize ==
    (last.op = "MinSize" /\ FitsIn(last.value, 4)) =>
        /\ last.size \in 1..4
        /\ FitsIn(last.value, last.size)
        /\ \A k \in 1..(last.size - 1) : ~FitsIn(last.value, k)

\* C14: Encode of the Integer 0 writes the one byte 00, and Encode of every other
\* integer writes a header that names a payload of at least one byte, and that
\* payload.
C14_CanonicalZero ==
    (last.op = "Encode" /\ last.record.Type = TypeInt) =>
        /\ last.err = "nil"
        /\ last.record.Value.int = IntZero => last.out = <<0>>
        /\ last.record.Value.int # IntZero =>
              /\ Len(last.out) >= 2
              /\ (last.out[1] \div 16) % 8 = Len(last.out) - 1

\* the number n >= 1 in the least number of big-endian bytes
RECURSIVE SizeField(_)
SizeField(n) == IF n < 256 THEN <<n>> ELSE SizeField(n \div 256) \o <<n % 256>>

\* the payload of the record Encode wrote: the string and its NUL for a Text
\* record, else the bytes after the header byte
PayloadWritten ==
    IF last.record.Type = TypeString THEN last.record.Value.string \o <<0>>
    ELSE SubSeq(last.out, 2, Len(last.out))

\* the bytes of a non-negative int without the zero bytes in front
RECURSIVE Significant(_)
Significant(x) == IF x # <<>> /\ x[1] = 0 THEN Significant(Tail(x)) ELSE x

\* C15: for a payload shorter than 8 bytes Encode writes one header byte, bit 7
\* clear, bits 6-4 the payload length, bits 3-0 the type tag, then the payload;
\* for a longer one a header byte with bit 7 set and bits 6-4 the width of the
\* size field, the payload length in the least number of big-endian bytes, then
\* the payload.
C15_HeaderForm ==
    /\ (last.op = "Encode" /\ last.err = "nil") =>
          last.out = IF Len(PayloadWritten) < 8
                     THEN <<Len(PayloadWritten) * 16 + last.record.Type>>
                          \o PayloadWritten
                     ELSE <<128 + Len(SizeField(Len(PayloadWritten))) * 16
                            + last.record.Type>>
                          \o SizeField(Len(PayloadWritten)) \o PayloadWritten
    /\ (last.op = "EncodeLong" /\ last.given.err = "nil") =>
          last.given.header =
              <<128 + Len(Significant(last.given.sizeOfValue)) * 16 + TypeString>>
              \o Significant(last.given.sizeOfValue)

\* C16: WritePacket with an empty list of values returns an error and the sink
\* receives no byte.
C16_EmptyValues ==
    (last.op = "WritePacket" /\ last.values = <<>>) =>
        /\ last.err # "nil"
        /\ last.writes = <<>>
        /\ stream = <<>>

C16_Witness ==
    /\ last.op = "WritePacket"
    /\ last.values = <<>>
    /\ last.err = "missing values"

\* C17: WritePacket writes nothing to the sink when it fails, and else hands
\* the sink the header and the whole payload in a single write.
C17_SingleWrite ==
    last.op = "WritePacket" =>
        /\ last.err # "nil" => last.writes = <<>>
        /\ last.err = "nil" => last.writes = <<last.out>>

\* C18: ReadRecord returns an error and no record for a record of type Array,
\* RawBytes or 7 to 15, a struct with such a record as a value fails as a whole,
\* and ReadPacket on a packet that holds one returns an error and no records.
C18_UnsupportedTypes ==
    last.op = "ReadUnsupported" =>
        /\ ReturnsError(last.err)
        /\ last.result = <<>>

\* C19: when the high nibble of the first byte is not the magic value or the
\* low nibble is not the version, ReadHeader returns an error and no header, and
\* has read the two-byte prefix only.
C19_MagicVersion ==
    (/\ last.op = "ReadHeader"
     /\ Len(last.data) >= 2
     /\ last.chunk >= 2
     /\ \/ last.data[1] \div 16 # 10
        \/ last.data[1] % 16 # 1) =>
        /\ last.err \in {"magic field did not match", "version did not match"}
        /\ last.header = NoHeader
        /\ last.consumed = 2

C19_Witness ==
    /\ last.op = "ReadHeader"
    /\ last.data = <<162, 3, 11, 111, 141, 162, 151>>
    /\ last.err = "version did not match"
    /\ last.consumed = 2

\* whether one of the three reads of ReadHeader on data gets fewer bytes than
\* it asks for, the source handing out at most chunk bytes per Read
ShortRead(data, chunk) ==
    \/ Len(data) < 2
    \/ chunk < 2
    \/ /\ WellFormedPrefix(data)
       /\ \/ Len(data) < 2 + LengthWidth(data)
          \/ chunk < LengthWidth(data)
          \/ Len(data) < 2 + LengthWidth(data) + CookieWidth(data)
          \/ chunk < CookieWidth(data)

\* C20: ReadHeader returns an error and no header whenever one of its three
\* reads gets fewer bytes than it asks for.
C20_ShortRead ==
    (last.op = "ReadHeader" /\ ShortRead(last.data, last.chunk)) =>
        /\ last.err \in {"cannot read header", "cannot read total length",
                          "cannot read cookie"}
        /\ last.header = NoHeader

C20_Witness ==
    /\ last.op = "ReadHeader"
    /\ last.data = <<161, 7, 11, 111, 141>>
    /\ last.chunk = BufSize
    /\ last.err = "cannot read cookie"
    /\ last.header = NoHeader

\* C21: ReadRecord fails once structs are nested deeper than a fixed maximum:
\* whatever that maximum, the deepest nesting decoded here is beyond it and is
\* refused with an error and no record, and no decoded record nests that deep.
C21_NestingGuard ==
    (last.op = "ReadNested" /\ last.depth = MaxNesting) =>
        /\ last.err # "nil"
        /\ last.rec = NoRecord
        /\ last.nested < MaxNesting

\* C22: Encode of a Struct record writes, for each item in order, the key as an
\* attribute-name record and then the record of its value, and then the
\* sentinel, and ReadRecord on what it wrote returns the same items in order.
C22_StructEncoding ==
    last.op = "EncodeStruct" =>
        /\ last.err = "nil"
        /\ last.out = WireOfStruct(last.given)
        /\ ReadRecord(BytesReader(last.out)).err = "nil"
        /\ PlainItems(ReadRecord(BytesReader(last.out)).rec.Value.items) = last.given

\* whether 4 bytes hold the payload length as an unsigned number
FourBytesHold(length) == SubSeq(length, 1, IntBytes - 4) = Rep(0, IntBytes - 4)

\* C23: WritePacket fails with the length-too-big error, and builds no header,
\* when 4 bytes cannot hold the payload length; the length field of a header it
\* builds holds the payload length, not a truncation of it.
C23_LengthTooBig ==
    last.op = "WriteHeader" =>
        /\ ~FourBytesHold(last.length) =>
              last.err = "packet length too big" /\ last.header = <<>>
        /\ last.err = "nil" =>
              Rep(0, IntBytes - Len(last.lengthBE)) \o last.lengthBE = last.length

\* the dynamic type a record of each tag holds
KindAgrees(record) ==
    CASE record.Type = TypeInt -> IsIntV(record.Value)
      [] record.Type = TypeString \/ record.Type = TypeAVP -> IsStringV(record.Value)
      [] record.Type = TypeDouble -> IsFloat64V(record.Value)
      [] record.Type = TypeStruct -> IsItemsV(record.Value)
      [] OTHER -> FALSE

\* C24: in every record CreateRecord, ReadRecord or ReadPacket returns, nested
\* ones included, the kind of the value agrees with the tag: the accessor of the
\* tag returns the value and no error, and each other accessor returns an error
\* and does not panic.
C24_TypedAccessors ==
    last.op = "Access" =>
        /\ KindAgrees(last.record)
        /\ last.string = IF last.record.Type = TypeString
                         THEN Got(last.record.Value) ELSE TypeError
        /\ last.int = IF last.record.Type = TypeInt
                      THEN Got(last.record.Value) ELSE TypeError
        /\ last.double = IF last.record.Type = TypeDouble
                         THEN Got(last.record.Value) ELSE TypeError
        /\ last.items = IF last.record.Type = TypeStruct
                        THEN Got(last.record.Value) ELSE TypeError

C24_Witness ==
    /\ last.op = "Access"
    /\ last.nested
    /\ last.record.Type = TypeStruct
    /\ last.record.Value = ItemsV(<<>>)
    /\ last.items = Got(ItemsV(<<>>))
    /\ last.double = TypeError

\* a text of base-10 digits, a sign allowed in front
IsIntegerText(s) ==
    \E k \in {0, 1} :
        /\ k < Len(s)
        /\ k = 1 => s[1] \in {43, 45}
        /\ \A i \in (k + 1)..Len(s) : s[i] \in 48..57

\* a text of base-10 digits with at most one point, a sign allowed in front
IsDecimalText(s) ==
    \E k \in {0, 1} :
        /\ k = 1 => Len(s) >= 1 /\ s[1] \in {43, 45}
        /\ \A i \in (k + 1)..Len(s) : s[i] \in 48..57 \cup {46}
        /\ \E i \in (k + 1)..Len(s) : s[i] \in 48..57
        /\ Cardinality({i \in (k + 1)..Len(s) : s[i] = 46}) <= 1

\* the pairs of destination and source the coercion matrix accepts
Accepts(kind, record) ==
    CASE kind = "string" -> record.Type \in {TypeString, TypeInt, TypeDouble}
      [] kind = "int" ->
            \/ record.Type = TypeInt
            \/ /\ record.Type = TypeString
               /\ IsStringV(record.Value)
               /\ IsIntegerText(record.Value.string)
      [] kind = "float64" ->
            \/ record.Type \in {TypeDouble, TypeInt}
            \/ /\ record.Type = TypeString
               /\ IsStringV(record.Value)
               /\ IsDecimalText(record.Value.string)
      [] kind = "items" -> record.Type = TypeStruct
      [] OTHER -> FALSE

\* C25: Scan succeeds exactly on the pairs of the coercion matrix: a text
\* destination takes Text, Integer and Double records, an integer destination
\* Integer records and Text records of base-10 digits, a double destination
\* Double, Integer and Text records that parse, a struct-items destination
\* Struct records only. Every other pair and every Text that does not parse
\* gives an error, and the destination then holds what it held before.
C25_ScanMatrix ==
    last.op = "Scan" =>
        /\ Accepts(last.before.kind, last.record) => last.err = "nil"
        /\ ~Accepts(last.before.kind, last.record) =>
              ReturnsError(last.err) /\ last.dest = last.before
        /\ last.dest.kind = last.before.kind

\* the number of bytes of the first i packets on the connection
RECURSIVE Boundary(_)
Boundary(i) == IF i = 0 THEN 0 ELSE Boundary(i - 1) + Len(sent[i].out)

\* the records of the payload of the i-th packet sent
RecordsOf(i) ==
    RecordsLoop(BytesReader(sent[i].payload), Len(sent[i].payload), 0, <<>>)

\* C26: a successful ReadPacket takes from the source the header and the
\* payload of one packet and nothing beyond, so the i-th of consecutive calls
\* returns the records of the i-th packet on the source. Stated for packets
\* of the peer, for a source that hands out all it holds at each Read and for
\* calls that pass the cookie test.
C26_ExactConsumption ==
    (/\ last.op = "ReadPacket"
     /\ last.chunk = BufSize
     /\ last.inOrder
     /\ last.nth <= Len(sent)
     /\ \A i \in 1..last.nth : sent[i].by = "peer"
     /\ last.expectedCookie \in {Rep(0, 4), sent[last.nth].cookie}) =>
        /\ last.err = RecordsOf(last.nth).err
        /\ last.records = RecordsOf(last.nth).records
        /\ last.err = "nil" => Position = Boundary(last.nth)

\* C27: ReadPacket returns the records of a well-formed packet whatever the
\* number of bytes the source hands out at each Read, down to one: a Read that
\* brings part of a field is followed by further Reads, not by an error.
C27_ChunkIndependence ==
    (/\ last.op = "ReadPacket"
     /\ last.nth = 1
     /\ sent[1].by = "peer"
     /\ last.expectedCookie = Rep(0, 4)
     /\ RecordsOf(1).err = "nil") =>
        /\ last.err = "nil"
        /\ last.records = RecordsOf(1).records

\* the sentinel: extended flag set, size field 0, type tag Struct
Sentinel == 128 + TypeStruct

\* the bytes after the header of a struct that lead the decoder to a sentinel
\* where the value of an item is due: the empty key and the sentinel, or first
\* a struct, where a key or the value of the empty key is due, with such bytes
RECURSIVE SentinelAsValue(_)
SentinelAsValue(d) ==
    \/ Len(d) >= 2 /\ d[1] = TypeAVP /\ d[2] = Sentinel
    \/ Len(d) >= 1 /\ d[1] = TypeStruct /\ SentinelAsValue(Tail(d))
    \/ Len(d) >= 2 /\ d[1] = TypeAVP /\ d[2] = TypeStruct
          /\ SentinelAsValue(Tail(Tail(d)))

\* C28: the sentinel never gives a record. Where a key is due it ends the
\* innermost struct only, the enclosing struct going on with its next key; where
\* the value of an item is due, or a record of a packet, decoding fails with an
\* error and returns nothing.
C28_SentinelHandling ==
    /\ (last.op = "ReadRecord" /\ last.data # <<>> /\ last.data[1] = Sentinel) =>
          last.err = errEndOfStruct /\ last.rec = NoRecord
    /\ (last.op = "ReadPacketBytes" /\ last.payload # <<>>
           /\ last.payload[1] = Sentinel) =>
          ReturnsError(last.err) /\ last.records = NoRecords
    /\ last.op = "ReadStruct" =>
          last.err = "nil" /\ PlainItems(last.rec.Value.items) = last.given
    /\ (last.op = "ReadRecord" /\ last.data # <<>> /\ last.data[1] = TypeStruct
           /\ SentinelAsValue(Tail(last.data))) =>
          ReturnsError(last.err) /\ last.rec = NoRecord

\* the bytes of a struct whose first key-position record has another tag than
\* AttributeName and is not the sentinel
OtherTagAsKey(data) ==
    /\ Len(data) >= 2
    /\ data[1] = TypeStruct
    /\ data[2] # Sentinel
    /\ data[2] % 16 # TypeAVP

\* C29: a struct is decoded only if every key-position record has the tag
\* AttributeName. A key-position record with another tag makes the decode of the
\* struct return an error and no record, and nothing is read after that record.
C29_StructKeyTag ==
    /\ last.op = "ReadStruct" =>
          /\ last.err = "nil"
          /\ \A i \in DOMAIN last.given : last.rec.Value.items[i].Key = last.given[i].Key
    /\ (last.op = "ReadRecord" /\ OtherTagAsKey(last.data)) =>
          /\ ReturnsError(last.err)
          /\ last.rec = NoRecord
          /\ last.consumed = 1 + ReadRecord(BytesReader(Tail(last.data))).r.pos

\* the running total of ReadPacket's loop after each of its iterations grows,
\* and the loop stops at the first total that reaches the declared length
LoopAdvances(records, declared) ==
    /\ \A i \in DOMAIN records :
          /\ SumSizes(SubSeq(records, 1, i)) > SumSizes(SubSeq(records, 1, i - 1))
          /\ SumSizes(SubSeq(records, 1, i - 1)) < declared
    /\ SumSizes(records) >= declared
    /\ Len(records) <= declared

\* C30: ReadPacket ends with a list of records or with an error and no record.
\* Every successful ReadRecord takes at least one byte and counts at least one,
\* so the running total of ReadPacket's loop grows at every iteration, and the
\* loop of a struct that is decoded has ended at a sentinel.
C30_DecodingTerminates ==
    /\ (last.op \in {"ReadRecord", "ReadStruct", "ReadBack", "ReadInt"}
           /\ last.err = "nil") =>
          /\ last.rec.size >= 1
          /\ last.consumed >= 1
          /\ last.rec.Type = TypeStruct => last.data[last.consumed] = Sentinel
    /\ last.op = "ReadPacketBytes" =>
          IF last.err = "nil" THEN LoopAdvances(last.records, last.declared)
          ELSE ReturnsError(last.err) /\ last.records = NoRecords

====
